---- MODULE Spec2Model ----
(***************************************************************************)
(* The we-share GraphQL backend: the Neo4j graph (User, Tweet and Comment  *)
(* nodes; POSTED, FOLLOWS, LIKES_TWEET and COMMENTS_ON relationships) and  *)
(* the resolver / service operations that read and write it.  Every        *)
(* request is handled by a process; a request that makes several database  *)
(* round trips takes one step per round trip (a write transaction is one   *)
(* step, taken at its commit), so that concurrent requests interleave the  *)
(* way the driver's read-committed transactions do.  A request's first     *)
(* step is its arrival: the context builder's lookup of the token's user   *)
(* and the resolver's first round trip.                                    *)
(***************************************************************************)
EXTENDS Integers, FiniteSets, Sequences, TLC

\* ------------------------------------------------------------- bounds
SeededRequests == 3   \* requests served in one behaviour on the seeded database
MaxUsers    == 3      \* User nodes ever created (randomUUID ids 1..MaxUsers)
MaxTweets   == 2      \* Tweet nodes ever created
MaxComments == 2      \* Comment nodes ever created
NumProcs    == 2      \* requests in flight at the same time
MaxRequests == 4      \* requests served in one behaviour

UserIds    == 1..MaxUsers
TweetIds   == 1..MaxTweets
CommentIds == 1..MaxComments
Procs      == 1..NumProcs
Usernames  == {"alice", "bob", "carol"}

\* A missing node property, a null context user, an id that names no node.
NULL == 0 - 1

\* The texts a createTweet input carries (strings as sequences of characters:
\* empty, whitespace only, and one with text after a leading blank) and its
\* media (an optional list of urls: left out, or given).
Texts      == {<< >>, <<" ">>, <<" ", "a">>}
\* The text an updateTweet input carries: left out, or one of the texts.
TextInputs == {[given |-> FALSE, text |-> << >>]} \cup {[given |-> TRUE, text |-> x] : x \in Texts}
Medias     == {[given |-> FALSE, urls |-> << >>], [given |-> TRUE, urls |-> <<"m">>]}

\* ------------------------------------------------------------- state
VARIABLES
  users,        \* User nodes: id -> [username]
  tweets,       \* Tweet nodes: id -> [text, media, authorId, likesCount, commentsCount, retweetsCount, isLiked]
  comments,     \* Comment nodes: id -> [authorId]
  posted,       \* POSTED edges User -> Tweet: set of <<userId, tweetId>>
  postedC,      \* POSTED edges User -> Comment: set of <<userId, commentId>>
  commentsOn,   \* COMMENTS_ON edges Comment -> Tweet: set of <<commentId, tweetId>>
  likesTweet,   \* LIKES_TWEET edges: <<userId, tweetId>> -> number of parallel edges
  likesComment, \* LIKES_COMMENT edges: <<userId, commentId>> -> number of parallel edges
  follows,      \* FOLLOWS edges: <<fromId, toId>> -> number of parallel edges
  created,      \* ids handed out so far: [users, tweets, comments]
  pc,           \* per process: where its request stands ("idle" between requests)
  arg,          \* per process: the request being served
  res,          \* the outcome of the request the last step finished (NoRes: none did)
  started,      \* requests started so far
  sessions      \* per process: the driver sessions its request's service operations
                \* hold, name -> number of close() calls (one closed once is gone)

graph == <<users, tweets, comments, posted, postedC, commentsOn, likesTweet, likesComment,
           follows, created>>
vars  == <<users, tweets, comments, posted, postedC, commentsOn, likesTweet, likesComment,
           follows, created, pc, arg, res, started, sessions>>

NoArg == [op |-> "none", user |-> NULL, tweet |-> NULL, target |-> NULL, comment |-> NULL, name |-> ""]
\* The Tweet object a resolver returns (null: found = FALSE).
NullTweet == [found |-> FALSE, id |-> NULL, text |-> << >>, media |-> << >>,
              authorId |-> NULL, author |-> NULL,
              likesCount |-> 0, commentsCount |-> 0, retweetsCount |-> 0, isLiked |-> FALSE]
NoRes == [op |-> "none", proc |-> NULL, user |-> NULL, tweet |-> NULL, target |-> NULL, comment |-> NULL,
          code |-> "", inner |-> "", message |-> "", ret |-> "none", value |-> NullTweet,
          list |-> {}, token |-> NULL, sent |-> [text |-> << >>, media |-> << >>]]

Init ==
  /\ users = << >>
  /\ tweets = << >>
  /\ comments = << >>
  /\ posted = {}
  /\ postedC = {}
  /\ commentsOn = {}
  /\ likesTweet = [e \in UserIds \X TweetIds |-> 0]
  /\ likesComment = [e \in UserIds \X CommentIds |-> 0]
  /\ follows = [e \in UserIds \X UserIds |-> 0]
  /\ created = [users |-> 0, tweets |-> 0, comments |-> 0]
  /\ pc = [p \in Procs |-> "idle"]
  /\ arg = [p \in Procs |-> NoArg]
  /\ res = NoRes
  /\ started = 0
  /\ sessions = [p \in Procs |-> << >>]

\* The server started on a database that earlier registrations left: the
\* users alice, bob and carol, and nothing else; it serves SeededRequests
\* requests (the count of requests starts where it leaves that many).
SeedNames == <<"alice", "bob", "carol">>
SeededInit ==
  /\ users = [u \in 1..Len(SeedNames) |-> [username |-> SeedNames[u]]]
  /\ tweets = << >>
  /\ comments = << >>
  /\ posted = {}
  /\ postedC = {}
  /\ commentsOn = {}
  /\ likesTweet = [e \in UserIds \X TweetIds |-> 0]
  /\ likesComment = [e \in UserIds \X CommentIds |-> 0]
  /\ follows = [e \in UserIds \X UserIds |-> 0]
  /\ created = [users |-> Len(SeedNames), tweets |-> 0, comments |-> 0]
  /\ pc = [p \in Procs |-> "idle"]
  /\ arg = [p \in Procs |-> NoArg]
  /\ res = NoRes
  /\ started = MaxRequests - SeededRequests
  /\ sessions = [p \in Procs |-> << >>]

\* The server started on a database where alice has posted a tweet and bob
\* has commented on it (createComment: the tweet's commentsCount was never
\* set); it serves SeededRequests requests.
CommentInit ==
  /\ users = [u \in 1..Len(SeedNames) |-> [username |-> SeedNames[u]]]
  /\ tweets = <<[text |-> <<" ", "a">>, media |-> [given |-> TRUE, urls |-> << >>],
                 authorId |-> 1, likesCount |-> NULL, commentsCount |-> NULL,
                 retweetsCount |-> NULL, isLiked |-> NULL]>>
  /\ comments = <<[authorId |-> 2, tweetId |-> 1]>>
  /\ posted = {<<1, 1>>}
  /\ postedC = {<<2, 1>>}
  /\ commentsOn = {<<1, 1>>}
  /\ likesTweet = [e \in UserIds \X TweetIds |-> 0]
  /\ likesComment = [e \in UserIds \X CommentIds |-> 0]
  /\ follows = [e \in UserIds \X UserIds |-> 0]
  /\ created = [users |-> Len(SeedNames), tweets |-> 1, comments |-> 1]
  /\ pc = [p \in Procs |-> "idle"]
  /\ arg = [p \in Procs |-> NoArg]
  /\ res = NoRes
  /\ started = MaxRequests - SeededRequests
  /\ sessions = [p \in Procs |-> << >>]

\* The server started on a database where alice and bob are registered and
\* carol has deleted her account; it serves SeededRequests requests.
AuthInit ==
  /\ users = <<[username |-> "alice"], [username |-> "bob"]>>
  /\ tweets = << >>
  /\ comments = << >>
  /\ posted = {}
  /\ postedC = {}
  /\ commentsOn = {}
  /\ likesTweet = [e \in UserIds \X TweetIds |-> 0]
  /\ likesComment = [e \in UserIds \X CommentIds |-> 0]
  /\ follows = [e \in UserIds \X UserIds |-> 0]
  /\ created = [users |-> MaxUsers, tweets |-> 0, comments |-> 0]
  /\ pc = [p \in Procs |-> "idle"]
  /\ arg = [p \in Procs |-> NoArg]
  /\ res = NoRes
  /\ started = MaxRequests - SeededRequests
  /\ sessions = [p \in Procs |-> << >>]

\* ------------------------------------------------------------- helpers
UserExists(u)    == u \in DOMAIN users
TweetExists(t)   == t \in DOMAIN tweets
CommentExists(c) == c \in DOMAIN comments

\* A function with one more / one fewer key.
Put(f, k, v) == [x \in (DOMAIN f) \cup {k} |-> IF x = k THEN v ELSE f[x]]
Drop(f, k)   == [x \in (DOMAIN f) \ {k} |-> f[x]]

\* tweetNode.likesCount ?? 0
Coalesce(v) == IF v = NULL THEN 0 ELSE v

\* input.media || [], tweetNode.media || []
OrEmpty(media) == IF media.given THEN media.urls ELSE << >>
\* A list that is there: an argument passed, a property stored.
Given(urls) == [given |-> TRUE, urls |-> urls]

\* String.prototype.trim: the text without its leading and trailing whitespace.
RECURSIVE trimStart(_)
trimStart(text) ==
  IF text # << >> /\ Head(text) = " " THEN trimStart(Tail(text)) ELSE text
RECURSIVE trimEnd(_)
trimEnd(text) ==
  IF text # << >> /\ text[Len(text)] = " "
  THEN trimEnd(SubSeq(text, 1, Len(text) - 1))
  ELSE text
trim(text) == trimEnd(trimStart(text))

\* !text.trim()
IsBlank(text) == trim(text) = << >>

Request(op, user, tweet, target, comment, name) ==
  [op |-> op, user |-> user, tweet |-> tweet, target |-> target, comment |-> comment,
   name |-> name]

\* The outcome of a request: what the resolver returns, or the ApolloError it
\* throws (code: the code of the error the caller gets; inner: the code or
\* message of the error first thrown, which the wrappers keep as originalError,
\* "DATABASE_ERROR" standing for a failure of the driver; a driver failure that
\* a service catches itself leaves code empty), or the ids of the tweets a
\* list query returns.
Outcome(a, ret) ==
  [NoRes EXCEPT !.op = a.op, !.user = a.user, !.tweet = a.tweet, !.target = a.target,
                !.comment = a.comment, !.ret = ret]
TweetOutcome(a, tw) ==
  [NoRes EXCEPT !.op = a.op, !.user = a.user, !.tweet = a.tweet, !.target = a.target,
                !.comment = a.comment, !.ret = IF tw.found THEN "tweet" ELSE "null",
                !.value = tw]
\* The message of the error the caller gets: the one its thrower or last
\* wrapper gave it.
ErrorMessage(code) ==
  CASE code = "TWEET_CREATION_ERROR"     -> "Failed to create tweet"
    [] code = "TWEET_FETCH_ERROR"        -> "Failed to fetch tweet"
    [] code = "TWEET_DELETION_ERROR"     -> "Failed to delete tweet"
    [] code = "TWEET_UPDATE_ERROR"       -> "Failed to update tweet"
    [] code = "LIKED_TWEETS_FETCH_ERROR" -> "Failed to fetch liked tweets"
    [] code = "TIMELINE_FETCH_ERROR"     -> "Failed to fetch timeline tweets"
    [] code = "LIKE_ERROR"               -> "Failed to like tweet"
    [] code = "COMMENT_ERROR"            -> "Failed to add comment"
    [] code = "FOLLOW_ERROR"             -> "Failed to follow user"
    [] code = "UNFOLLOW_USER_ERROR"      -> "Failed to unfollow user"
    [] code = "USER_EXISTS"              -> "Username already exists"
    [] code = "USERNAME_EXISTS"          -> "Username already exists"
    [] code = "INVALID_CREDENTIALS"      -> "Invalid password"
    [] code = "INTERNAL_SERVER_ERROR"    -> "Failed to execute database operation"
    [] code = "USER_UPDATE_ERROR"        -> "Failed to update user"
    [] code = "UNLIKE_ERROR"             -> "Failed to unlike tweet"
    [] code = "UNAUTHENTICATED"          -> "Authentication required"
    [] code = "ACCESS_DENIED"            ->
         "Access denied! You need to be authorized to perform this action!"
    [] OTHER                             -> ""

ListOutcome(a, list) ==
  [NoRes EXCEPT !.op = a.op, !.user = a.user, !.tweet = a.tweet, !.target = a.target,
                !.comment = a.comment, !.ret = "list", !.list = list]
Failure(a, code, inner) ==
  [NoRes EXCEPT !.op = a.op, !.user = a.user, !.tweet = a.tweet, !.target = a.target,
                !.comment = a.comment, !.code = code, !.inner = inner,
                !.message = ErrorMessage(code)]

\* The context builder found the token's user: context.user is a User node.
Authenticated(u) == UserExists(u)

\* A request arrives and is taken by the first idle process.
Arrive(p) ==
  /\ pc[p] = "idle"
  /\ \A q \in Procs : q < p => pc[q] # "idle"
  /\ started < MaxRequests
  /\ started' = started + 1

\* driver.session(): one more session, open, under the name of what holds it
\* ("op": the service operation the resolver called; "fetch": a fetchTweet
\* that operation calls).
acquire(ss, s) == Put(ss, s, 0)

\* session.close()
close(ss, s) == [x \in DOMAIN ss |-> IF x = s THEN ss[x] + 1 ELSE ss[x]]

\* A finally block that is skipped when the operation threw.
FinallyOnSuccess(ss, s, threw) == IF threw THEN ss ELSE close(ss, s)

\* finally { await session.close() }: runs whether or not the operation threw.
Finally(ss, s, threw) == close(ss, s)

\* withSession(operation), and the Neo4jService methods, when the operation
\* takes one step: session(), try { operation } finally { close() }.
withSession(ss, s, threw) == Finally(acquire(ss, s), s, threw)

\* What is left to track: sessions still open, or closed more than once.
Released(ss) == [s \in {x \in DOMAIN ss : ss[x] # 1} |-> ss[s]]

\* The request a of process p goes on to its next round trip, holding ss.
Goto(p, a, label, ss) ==
  /\ pc' = [pc EXCEPT ![p] = label]
  /\ arg' = [arg EXCEPT ![p] = a]
  /\ res' = NoRes
  /\ sessions' = [sessions EXCEPT ![p] = Released(ss)]

\* The request a of process p ends: outcome is what its caller gets.
Finish(p, outcome, ss) ==
  /\ pc' = [pc EXCEPT ![p] = "idle"]
  /\ arg' = [arg EXCEPT ![p] = NoArg]
  /\ res' = [outcome EXCEPT !.proc = p]
  /\ sessions' = [sessions EXCEPT ![p] = Released(ss)]

InFlight(labels) == Cardinality({q \in Procs : pc[q] \in labels})

\* ------------------------------------------------------------- queries
\* mapTweet: the Tweet built from a Tweet node and its author's node.
mapTweet(id, tweetNode, authorId) ==
  [found |-> TRUE, id |-> id, text |-> tweetNode.text, media |-> OrEmpty(tweetNode.media),
   authorId |-> tweetNode.authorId, author |-> authorId,
   likesCount |-> Coalesce(tweetNode.likesCount),
   commentsCount |-> Coalesce(tweetNode.commentsCount),
   retweetsCount |-> Coalesce(tweetNode.retweetsCount),
   isLiked |-> IF tweetNode.isLiked = NULL THEN FALSE ELSE tweetNode.isLiked = 1]

\* MATCH (t:Tweet {id: $id})<-[r:POSTED]-(u:User) RETURN t, u
PostersOf(id) == {u \in DOMAIN users : <<u, id>> \in posted}

\* TweetService.fetchTweet(id): records[0] mapped, or null.
fetchTweet(id) ==
  IF TweetExists(id) /\ PostersOf(id) # {}
  THEN mapTweet(id, tweets[id], CHOOSE u \in PostersOf(id) : TRUE)
  ELSE NullTweet

\* MATCH (u:User {id: $userId})-[r:LIKES_TWEET]->(t:Tweet {id: $tweetId}) RETURN r
ExistingLikes(userId, tweetId) ==
  IF userId \in UserIds /\ tweetId \in TweetIds THEN likesTweet[<<userId, tweetId>>] ELSE 0

\* The LIKES_TWEET edges that point at a tweet, and the Comment nodes with a
\* COMMENTS_ON edge to it.
RECURSIVE SumLikes(_, _)
SumLikes(S, t) ==
  IF S = {} THEN 0
  ELSE LET u == CHOOSE x \in S : TRUE IN likesTweet[<<u, t>>] + SumLikes(S \ {u}, t)
LikeEdges(t) == SumLikes(UserIds, t)
CommentsOf(t) == {c \in DOMAIN comments : <<c, t>> \in commentsOn}

\* TweetService.listTweets: MATCH (t:Tweet)<-[:POSTED]-(u:User) RETURN t, u
listTweets == {t \in DOMAIN tweets : PostersOf(t) # {}}

\* TweetService.listUserTweets(userId):
\* MATCH (u:User {id: $userId})-[:POSTED]->(t:Tweet) RETURN t, u
listUserTweets(userId) ==
  {t \in DOMAIN tweets : UserExists(userId) /\ <<userId, t>> \in posted}

\* The object listTweets, listUserTweets, listLikedTweets and
\* listTimelineTweets build for a record (t, author): id, text, media,
\* authorId (the author node's id) and author; likesCount, commentsCount,
\* retweetsCount and isLiked are not set.
listedTweet(id, tweetNode, authorId) ==
  [id |-> id, text |-> tweetNode.text, media |-> OrEmpty(tweetNode.media),
   authorId |-> authorId, author |-> authorId,
   likesCount |-> NULL, commentsCount |-> NULL, retweetsCount |-> NULL]

\* The objects the four list queries return for a tweet, one for each of its
\* posters.
ListedTweets(t) == {listedTweet(t, tweets[t], u) : u \in PostersOf(t)}

\* TweetService.listLikedTweets(userId):
\* MATCH (u:User {id: $userId})-[r:LIKES_TWEET]->(t:Tweet)<-[:POSTED]-(author:User)
listLikedTweets(userId) ==
  {t \in DOMAIN tweets : /\ UserExists(userId)
                         /\ likesTweet[<<userId, t>>] > 0
                         /\ PostersOf(t) # {}}

\* A timeline whose WHERE keeps the user's own tweets only.
TimelineWhereOwnOnly(posterId, followingId, userId) == posterId = userId

\* WHERE (poster.id IN following.id OR poster.id = $userId): following.id is
\* one id, which IN takes as the list of that one id.
TimelineWhere(posterId, followingId, userId) ==
  posterId = followingId \/ posterId = userId

\* TweetService.listTimelineTweets(userId):
\* MATCH (me:User {id: $userId})-[:FOLLOWS]->(following:User)
\* MATCH (t:Tweet)<-[:POSTED]-(poster:User) WHERE ... RETURN t, poster
\* The second MATCH runs once for every row of the first: the rows are the
\* (following, tweet, poster) triples the WHERE keeps, none when me follows
\* no one.
TimelineRows(userId) ==
  {r \in (DOMAIN users) \X (DOMAIN tweets) \X (DOMAIN users) :
     /\ UserExists(userId)
     /\ follows[<<userId, r[1]>>] > 0
     /\ <<r[3], r[2]>> \in posted
     /\ TimelineWhere(r[3], r[1], userId)}
listTimelineTweets(userId) == {r[2] : r \in TimelineRows(userId)}

\* The records of the timeline query that carry tweet t: one for every
\* FOLLOWS edge of the user and poster of t that the WHERE keeps.
RECURSIVE CountRecords(_, _)
CountRecords(rows, userId) ==
  IF rows = {} THEN 0
  ELSE LET r == CHOOSE x \in rows : TRUE IN
         follows[<<userId, r[1]>>] + CountRecords(rows \ {r}, userId)
TimelineCopies(userId, t) ==
  CountRecords({r \in TimelineRows(userId) : r[2] = t}, userId)

\* ------------------------------------------------------------- users
\* A lookup that never finds the username.
findUserByUsernameNever(name) == {}

\* MATCH (u:User {username: $username}) RETURN u
findUserByUsername(name) == {u \in DOMAIN users : users[u].username = name}

RegisterLabels == {"reg_check", "reg_create"}

\* UserResolver.registerUser: the request arrives (no token is needed) and the
\* resolver looks the username up.
RegisterUserFind(p, name) ==
  /\ Arrive(p)
  /\ created.users + InFlight(RegisterLabels) < MaxUsers
  /\ UNCHANGED graph
  /\ LET a == Request("registerUser", NULL, NULL, NULL, NULL, name) IN
       \/ /\ findUserByUsername(name) # {}
          /\ Finish(p, Failure(a, "USER_EXISTS", ""),
                    withSession(sessions[p], "op", FALSE))
       \/ /\ findUserByUsername(name) = {}
          /\ Goto(p, a, "reg_check",
                  withSession(sessions[p], "op", FALSE))

\* UserService.createUser: its own lookup of the username before the write.
RegisterUserCheck(p) ==
  /\ pc[p] = "reg_check"
  /\ UNCHANGED <<graph, started>>
  /\ \/ /\ findUserByUsername(arg[p].name) # {}
        /\ Finish(p, Failure(arg[p], "USERNAME_EXISTS", ""),
                  withSession(sessions[p], "op", FALSE))
     \/ /\ findUserByUsername(arg[p].name) = {}
        /\ Goto(p, arg[p], "reg_create",
                withSession(sessions[p], "op", FALSE))

\* Neo4jService.createUser: CREATE (u:User {id: randomUUID(), username: ...}).
createUser(id, name) == Put(users, id, [username |-> name])

RegisterUserCreate(p) ==
  /\ pc[p] = "reg_create"
  /\ LET id == created.users + 1 IN
       /\ users' = createUser(id, arg[p].name)
       /\ created' = [created EXCEPT !.users = id]
       /\ Finish(p, [Outcome(arg[p], "registered") EXCEPT !.user = id],
                 withSession(sessions[p], "op", FALSE))
  /\ UNCHANGED <<tweets, comments, posted, postedC, commentsOn, likesTweet, likesComment, follows, started>>

\* UserResolver.deleteUser -> UserService.deleteUser:
\* MATCH (u:User {id: $id}) DETACH DELETE u, for the authenticated user itself.
DeleteUser(p, u, passwordOk) ==
  /\ Arrive(p)
  /\ Authenticated(u)
  /\ UNCHANGED <<tweets, comments, commentsOn, created>>
  /\ LET a == Request("deleteUser", u, NULL, u, NULL, "") IN
       IF passwordOk
       THEN /\ users' = Drop(users, u)
            /\ posted' = {e \in posted : e[1] # u}
            /\ postedC' = {e \in postedC : e[1] # u}
            /\ likesTweet' = [e \in DOMAIN likesTweet |-> IF e[1] = u THEN 0 ELSE likesTweet[e]]
            /\ likesComment' = [e \in DOMAIN likesComment |->
                                  IF e[1] = u THEN 0 ELSE likesComment[e]]
            /\ follows' = [e \in DOMAIN follows |->
                             IF e[1] = u \/ e[2] = u THEN 0 ELSE follows[e]]
            /\ Finish(p, Outcome(a, "true"),
                      withSession(sessions[p], "op", FALSE))
       ELSE /\ UNCHANGED <<users, posted, postedC, likesTweet, likesComment, follows>>
            /\ Finish(p, Failure(a, "INVALID_CREDENTIALS", ""),
                      withSession(sessions[p], "op", FALSE))

\* ------------------------------------------------------------- tweets
\* A createTweet whose node keeps the trimmed text.
NewTweetNodeTrimmed(text, media, authorId) ==
  [text |-> trim(text), media |-> media, authorId |-> authorId, likesCount |-> NULL,
   commentsCount |-> NULL, retweetsCount |-> NULL, isLiked |-> NULL]

\* CREATE (t:Tweet {id: randomUUID(), text: $text, media: $media, ..., authorId: $authorId})
NewTweetNode(text, media, authorId) ==
  [text |-> text, media |-> media, authorId |-> authorId, likesCount |-> NULL,
   commentsCount |-> NULL, retweetsCount |-> NULL, isLiked |-> NULL]

\* What TweetResolver.createTweet throws before it calls the service (the
\* message of its plain Error), and what TweetService.createTweet throws
\* before it opens a session (the code of its ApolloError); "" when the text
\* passes.  The resolver's catch wraps either as TWEET_CREATION_ERROR.
CreateTweetRejection(text) ==
  IF IsBlank(text) THEN "Tweet text cannot be empty"
  ELSE IF IsBlank(text) THEN "INVALID_INPUT"
  ELSE ""

\* TweetResolver.createTweet -> TweetService.createTweet:
\* MATCH (u:User {id: $authorId}) CREATE (t:Tweet {...}) CREATE (u)-[:POSTED]->(t),
\* in one write transaction.
CreateTweet(p, u, text, media) ==
  /\ Arrive(p)
  /\ Authenticated(u)
  /\ UNCHANGED <<users, comments, postedC, commentsOn, likesTweet, likesComment, follows>>
  /\ LET a    == Request("createTweet", u, NULL, NULL, NULL, "")
         id   == created.tweets + 1
         node == NewTweetNode(text, Given(OrEmpty(media)), u) IN
       \/ /\ CreateTweetRejection(text) # ""
          /\ UNCHANGED <<tweets, posted, created>>
          /\ Finish(p, Failure(a, "TWEET_CREATION_ERROR", CreateTweetRejection(text)),
                    sessions[p])
       \/ /\ CreateTweetRejection(text) = ""
          /\ created.tweets < MaxTweets
          /\ tweets' = Put(tweets, id, node)
          /\ posted' = posted \cup {<<u, id>>}
          /\ created' = [created EXCEPT !.tweets = id]
          /\ Finish(p, [TweetOutcome(a, mapTweet(id, node, u)) EXCEPT !.tweet = id],
                    withSession(sessions[p], "op", FALSE))
       \/ /\ CreateTweetRejection(text) = ""
          /\ created.tweets < MaxTweets
          /\ UNCHANGED <<tweets, posted, created>>
          /\ Finish(p, Failure(a, "TWEET_CREATION_ERROR", "DATABASE_ERROR"),
                    withSession(sessions[p], "op", TRUE))

\* input.text || ''
TextOrEmpty(text) == IF text.given THEN text.text ELSE << >>

\* !input.text?.trim() && !input.media?.length: what TweetResolver.updateTweet
\* throws before it calls the service; "" when the input passes.
UpdateTweetRejection(text, media) ==
  IF IsBlank(TextOrEmpty(text)) /\ Len(OrEmpty(media)) = 0
  THEN "At least one field (text or media) must be provided for update"
  ELSE ""

\* An updateTweet whose SET is committed.
updateTweetCommitted(id, text, media) ==
  IF TweetExists(id)
  THEN [tweets EXCEPT ![id].text = text, ![id].media = Given(media)]
  ELSE tweets

\* TweetService.updateTweet(id, text, media), the Tweet nodes its write
\* transaction leaves.  Its second statement,
\* MATCH (t:Tweet {id: $id}) SET t.text = $text, t.media = $media ...
\* RETURN t, (t)<-[:POSTED]-(u:User) as author,
\* returns a pattern expression that introduces the variable u, which the
\* database refuses (and where it is accepted the value is a list of paths,
\* whose .properties is undefined, so that mapTweet throws a TypeError): the
\* transaction function throws either way and the driver rolls the SET back.
updateTweet(id, text, media) == tweets

\* TweetResolver.updateTweet -> TweetService.updateTweet: the input is
\* refused, or the tweet is not there (the service returns null), or the
\* update statement is run and fails.
UpdateTweet(p, u, t, text, media) ==
  /\ Arrive(p)
  /\ Authenticated(u)
  /\ UNCHANGED <<users, comments, posted, postedC, commentsOn, likesTweet, likesComment, follows,
                 created>>
  /\ LET a    == Request("updateTweet", u, t, NULL, NULL, "")
         sent == [text |-> TextOrEmpty(text), media |-> OrEmpty(media)] IN
       \/ /\ UpdateTweetRejection(text, media) # ""
          /\ UNCHANGED tweets
          /\ Finish(p, Failure(a, "TWEET_UPDATE_ERROR", UpdateTweetRejection(text, media)),
                    sessions[p])
       \/ /\ UpdateTweetRejection(text, media) = ""
          /\ ~TweetExists(t)
          /\ UNCHANGED tweets
          /\ Finish(p, [Failure(a, "TWEET_UPDATE_ERROR", "Tweet not found or update failed")
                          EXCEPT !.sent = sent],
                    withSession(sessions[p], "op", FALSE))
       \/ /\ UpdateTweetRejection(text, media) = ""
          /\ TweetExists(t)
          /\ tweets' = updateTweet(t, sent.text, sent.media)
          /\ Finish(p, [Failure(a, "TWEET_UPDATE_ERROR", "DATABASE_ERROR") EXCEPT !.sent = sent],
                    withSession(sessions[p], "op", TRUE))

\* TweetResolver.fetchTweet -> TweetService.fetchTweet, for a viewer (the
\* context's user, or none).
FetchTweet(p, viewer, t) ==
  /\ Arrive(p)
  /\ viewer = NULL \/ Authenticated(viewer)
  /\ UNCHANGED graph
  /\ LET a == Request("fetchTweet", viewer, t, NULL, NULL, "") IN
       \/ Finish(p, TweetOutcome(a, fetchTweet(t)),
                 withSession(sessions[p], "op", FALSE))
       \/ Finish(p, Failure(a, "TWEET_FETCH_ERROR", "DATABASE_ERROR"),
                 withSession(sessions[p], "op", TRUE))

\* TweetResolver.listTweets -> TweetService.listTweets; no token is needed.
ListTweets(p) ==
  /\ Arrive(p)
  /\ UNCHANGED graph
  /\ LET a == Request("listTweets", NULL, NULL, NULL, NULL, "") IN
       \/ Finish(p, ListOutcome(a, listTweets),
                 withSession(sessions[p], "op", FALSE))
       \/ Finish(p, Failure(a, "TWEET_FETCH_ERROR", "DATABASE_ERROR"),
                 withSession(sessions[p], "op", TRUE))

\* TweetResolver.listLikedTweets(userId) -> TweetService.listLikedTweets; no
\* token is needed.
ListLikedTweets(p, userId) ==
  /\ Arrive(p)
  /\ UNCHANGED graph
  /\ LET a == Request("listLikedTweets", NULL, NULL, userId, NULL, "") IN
       \/ Finish(p, ListOutcome(a, listLikedTweets(userId)),
                 withSession(sessions[p], "op", FALSE))
       \/ Finish(p, Failure(a, "LIKED_TWEETS_FETCH_ERROR", "DATABASE_ERROR"),
                 withSession(sessions[p], "op", TRUE))

\* TweetResolver.listTimelineTweets(userId) -> TweetService.listTimelineTweets:
\* the caller is authenticated, the timeline is that of the userId argument.
ListTimelineTweets(p, viewer, userId) ==
  /\ Arrive(p)
  /\ Authenticated(viewer)
  /\ UNCHANGED graph
  /\ LET a == Request("listTimelineTweets", viewer, NULL, userId, NULL, "") IN
       \/ Finish(p, ListOutcome(a, listTimelineTweets(userId)),
                 withSession(sessions[p], "op", FALSE))
       \/ Finish(p, Failure(a, "TIMELINE_FETCH_ERROR", "DATABASE_ERROR"),
                 withSession(sessions[p], "op", TRUE))

\* TweetResolver.deleteTweet: "Verify the tweet exists and belongs to the user",
\* the user being the input's own authorId.
DeleteTweetFetch(p, u, t, authorId) ==
  /\ Arrive(p)
  /\ Authenticated(u)
  /\ UNCHANGED graph
  /\ LET a     == Request("deleteTweet", u, t, authorId, NULL, "")
         tweet == fetchTweet(t) IN
       \/ /\ ~tweet.found
          /\ Finish(p, Failure(a, "TWEET_DELETION_ERROR", "Tweet not found"),
                    withSession(sessions[p], "op", FALSE))
       \/ /\ tweet.found
          /\ tweet.authorId # authorId
          /\ Finish(p, Failure(a, "TWEET_DELETION_ERROR", "Unauthorized"),
                    withSession(sessions[p], "op", FALSE))
       \/ /\ tweet.found
          /\ tweet.authorId = authorId
          /\ Goto(p, a, "dt_tx",
                  withSession(sessions[p], "op", FALSE))
       \/ Finish(p, Failure(a, "TWEET_DELETION_ERROR", "DATABASE_ERROR"),
                 withSession(sessions[p], "op", TRUE))

\* A deleteTweet whose transaction changes nothing.
deleteTweetNothing(t) ==
  [tweets |-> tweets, posted |-> posted, commentsOn |-> commentsOn, likesTweet |-> likesTweet]

\* What deleteTweet's two statements leave: no edge into the tweet (POSTED,
\* COMMENTS_ON, LIKES_TWEET), and no Tweet node.
deleteTweet(t) ==
  [tweets     |-> IF TweetExists(t) THEN Drop(tweets, t) ELSE tweets,
   posted     |-> {e \in posted : e[2] # t},
   commentsOn |-> {e \in commentsOn : e[2] # t},
   likesTweet |-> [e \in DOMAIN likesTweet |-> IF e[2] = t THEN 0 ELSE likesTweet[e]]]

\* TweetService.deleteTweet: MATCH (t:Tweet {id})<-[r]-(n) DELETE r, then
\* MATCH (t:Tweet {id}) DELETE t, in one write transaction.
DeleteTweetTx(p) ==
  /\ pc[p] = "dt_tx"
  /\ UNCHANGED <<users, comments, postedC, likesComment, follows, created, started>>
  /\ LET t == arg[p].tweet IN
       \/ /\ tweets' = deleteTweet(t).tweets
          /\ posted' = deleteTweet(t).posted
          /\ commentsOn' = deleteTweet(t).commentsOn
          /\ likesTweet' = deleteTweet(t).likesTweet
          /\ Finish(p, Outcome(arg[p], "true"),
                    withSession(sessions[p], "op", FALSE))
       \/ /\ UNCHANGED <<tweets, posted, commentsOn, likesTweet>>
          /\ Finish(p, Failure(arg[p], "TWEET_DELETION_ERROR", "DATABASE_ERROR"),
                    withSession(sessions[p], "op", TRUE))

\* ------------------------------------------------------------- likes
\* A likeTweet whose existence check never finds the edge.
AlreadyLikedNever(userId, tweetId) == FALSE

\* existingLike.records.length > 0
AlreadyLiked(userId, tweetId) == ExistingLikes(userId, tweetId) > 0

\* TweetResolver.likeTweet -> TweetService.likeTweet, first statement of its
\* write transaction: "Check if already liked"; throws 'Tweet already liked'.
LikeTweetCheck(p, u, t) ==
  /\ Arrive(p)
  /\ Authenticated(u)
  /\ UNCHANGED graph
  /\ LET a == Request("likeTweet", u, t, NULL, NULL, "") IN
       \/ /\ AlreadyLiked(u, t)
          /\ Finish(p, Failure(a, "LIKE_ERROR", "Tweet already liked"),
                    withSession(sessions[p], "op", TRUE))
       \/ /\ ~AlreadyLiked(u, t)
          /\ Goto(p, a, "like_create",
                  acquire(sessions[p], "op"))
       \/ Finish(p, Failure(a, "LIKE_ERROR", "DATABASE_ERROR"),
                 withSession(sessions[p], "op", TRUE))

\* MATCH (u:User {id: $userId}), (t:Tweet {id: $tweetId})
\* CREATE (u)-[r:LIKES_TWEET {createdAt: datetime()}]->(t)
CreateLikeEdge(userId, tweetId) ==
  IF UserExists(userId) /\ TweetExists(tweetId)
  THEN [likesTweet EXCEPT ![<<userId, tweetId>>] = @ + 1]
  ELSE likesTweet

\* TweetService.likeTweet, second statement and the commit; then return true.
LikeTweetCreate(p) ==
  /\ pc[p] = "like_create"
  /\ UNCHANGED <<users, tweets, comments, posted, postedC, commentsOn, likesComment, follows, created, started>>
  /\ \/ /\ likesTweet' = CreateLikeEdge(arg[p].user, arg[p].tweet)
        /\ Finish(p, Outcome(arg[p], "true"),
                  Finally(sessions[p], "op", FALSE))
     \/ /\ UNCHANGED likesTweet
        /\ Finish(p, Failure(arg[p], "LIKE_ERROR", "DATABASE_ERROR"),
                  Finally(sessions[p], "op", TRUE))

\* MATCH (u:User {id: $userId})-[r:LIKES_TWEET]->(t:Tweet {id: $tweetId}) DELETE r
DeleteLikeEdges(userId, tweetId) == [likesTweet EXCEPT ![<<userId, tweetId>>] = 0]

\* An unlikeTweet that answers false whether or not its statement ran.
UnlikeResultAlwaysFalse(threw) == "false"

\* What unlikeTweet returns: true when the statement ran, false from its catch.
UnlikeResult(threw) == IF threw THEN "false" ELSE "true"

\* TweetResolver.unlikeTweet -> TweetService.unlikeTweet.
UnlikeTweet(p, u, t) ==
  /\ Arrive(p)
  /\ Authenticated(u)
  /\ UNCHANGED <<users, tweets, comments, posted, postedC, commentsOn, likesComment, follows, created>>
  /\ LET a == Request("unlikeTweet", u, t, NULL, NULL, "") IN
       \/ /\ likesTweet' = DeleteLikeEdges(u, t)
          /\ Finish(p, Outcome(a, UnlikeResult(FALSE)),
                    withSession(sessions[p], "op", FALSE))
       \/ /\ UNCHANGED likesTweet
          /\ Finish(p, [Outcome(a, UnlikeResult(TRUE)) EXCEPT !.inner = "DATABASE_ERROR"],
                    withSession(sessions[p], "op", FALSE))

\* ------------------------------------------------------------- comments
CommentLabels == {"cot_sfetch", "cot_tx"}

\* A Comment id is left for one more request that may create a Comment node.
CommentIdLeft == created.comments + InFlight(CommentLabels) < MaxComments

\* TweetResolver.commentOnTweet: "Verify the tweet exists".
CommentOnTweetResolverFetch(p, u, t) ==
  /\ Arrive(p)
  /\ Authenticated(u)
  /\ CommentIdLeft
  /\ UNCHANGED graph
  /\ LET a == Request("commentOnTweet", u, t, NULL, NULL, "") IN
       \/ /\ ~fetchTweet(t).found
          /\ Finish(p, Failure(a, "COMMENT_ERROR", "Tweet not found"),
                    withSession(sessions[p], "op", FALSE))
       \/ /\ fetchTweet(t).found
          /\ Goto(p, a, "cot_sfetch",
                  withSession(sessions[p], "op", FALSE))

\* TweetService.commentOnTweet: "First, verify the tweet exists".
CommentOnTweetServiceFetch(p) ==
  /\ pc[p] = "cot_sfetch"
  /\ UNCHANGED <<graph, started>>
  /\ \/ /\ ~fetchTweet(arg[p].tweet).found
        /\ Finish(p, Failure(arg[p], "COMMENT_ERROR", "Tweet not found"),
                  Finally(withSession(acquire(sessions[p], "op"), "fetch", FALSE), "op", TRUE))
     \/ /\ fetchTweet(arg[p].tweet).found
        /\ Goto(p, arg[p], "cot_tx",
                withSession(acquire(sessions[p], "op"), "fetch", FALSE))

\* MATCH (u:User {id: $authorId}), (t:Tweet {id: $tweetId}): the rows the
\* CREATE clauses of a comment statement run for (one or none).
CommentMatch(authorId, tweetId) == UserExists(authorId) /\ TweetExists(tweetId)

\* MATCH (t:Tweet {id: $tweetId}) SET t.commentsCount = COALESCE(t.commentsCount, 0) + 1
IncrementCommentsCount(tweetId) ==
  IF TweetExists(tweetId)
  THEN [tweets EXCEPT ![tweetId].commentsCount = Coalesce(@) + 1]
  ELSE tweets

\* TweetService.commentOnTweet, its write transaction: the comment statement,
\* then the counter statement; createCommentResult.records[0] is returned
\* unread, so an empty result raises nothing.
CommentOnTweetTx(p) ==
  /\ pc[p] = "cot_tx"
  /\ UNCHANGED <<users, posted, likesTweet, likesComment, follows, started>>
  /\ LET u  == arg[p].user
         t  == arg[p].tweet
         id == created.comments + 1 IN
       \/ /\ IF CommentMatch(u, t)
             THEN /\ comments' = Put(comments, id, [authorId |-> u, tweetId |-> NULL])
                  /\ postedC' = postedC \cup {<<u, id>>}
                  /\ commentsOn' = commentsOn \cup {<<id, t>>}
                  /\ created' = [created EXCEPT !.comments = id]
             ELSE UNCHANGED <<comments, postedC, commentsOn, created>>
          /\ tweets' = IncrementCommentsCount(t)
          /\ Goto(p, [arg[p] EXCEPT !.comment = IF CommentMatch(u, t) THEN id ELSE NULL],
                  "cot_sfetch2", sessions[p])
       \/ /\ UNCHANGED <<tweets, comments, postedC, commentsOn, created>>
          /\ Finish(p, Failure(arg[p], "COMMENT_ERROR", "DATABASE_ERROR"),
                    Finally(sessions[p], "op", TRUE))

\* TweetService.commentOnTweet: "Return the updated tweet" (the resolver drops it).
CommentOnTweetServiceRefetch(p) ==
  /\ pc[p] = "cot_sfetch2"
  /\ UNCHANGED <<graph, started>>
  /\ Goto(p, arg[p], "cot_rfetch2",
          Finally(withSession(sessions[p], "fetch", FALSE), "op", FALSE))

\* TweetResolver.commentOnTweet: "Return the updated tweet with the new comment".
CommentOnTweetResolverRefetch(p) ==
  /\ pc[p] = "cot_rfetch2"
  /\ UNCHANGED <<graph, started>>
  /\ Finish(p, TweetOutcome(arg[p], fetchTweet(arg[p].tweet)),
            withSession(sessions[p], "op", FALSE))

\* CommentService.createComment(text, authorId, tweetId): one write transaction;
\* createCommentResult.records[0].get('c') throws on an empty result, and
\* withSession rethrows it as an ApolloError that carries no code of its own.
CreateComment(p, authorId, t) ==
  /\ Arrive(p)
  /\ CommentIdLeft
  /\ UNCHANGED <<users, tweets, posted, likesTweet, likesComment, follows>>
  /\ LET a  == Request("createComment", authorId, t, NULL, NULL, "")
         id == created.comments + 1 IN
       IF CommentMatch(authorId, t)
       THEN /\ comments' = Put(comments, id, [authorId |-> authorId, tweetId |-> t])
            /\ postedC' = postedC \cup {<<authorId, id>>}
            /\ commentsOn' = commentsOn \cup {<<id, t>>}
            /\ created' = [created EXCEPT !.comments = id]
            /\ Finish(p, [Outcome(a, "comment") EXCEPT !.comment = id],
                      withSession(sessions[p], "op", FALSE))
       ELSE /\ UNCHANGED <<comments, postedC, commentsOn, created>>
            /\ Finish(p, Failure(a, "INTERNAL_SERVER_ERROR", "TypeError"),
                      withSession(sessions[p], "op", TRUE))

\* MATCH (u:User {id: $userId})-[:POSTED]->(c:Comment {id: $commentId}) RETURN c
OwnsComment(userId, commentId) ==
  UserExists(userId) /\ CommentExists(commentId) /\ <<userId, commentId>> \in postedC

\* CommentService.deleteComment, first statement of its write transaction.
DeleteCommentCheck(p, u, c) ==
  /\ Arrive(p)
  /\ UNCHANGED graph
  /\ LET a == Request("deleteComment", u, NULL, NULL, c, "") IN
       \/ /\ ~OwnsComment(u, c)
          /\ Finish(p, Failure(a, "INTERNAL_SERVER_ERROR", "Comment not found or not authorized"),
                    withSession(sessions[p], "op", TRUE))
       \/ /\ OwnsComment(u, c)
          /\ Goto(p, a, "dc_delete",
                  acquire(sessions[p], "op"))

\* MATCH (c:Comment {id: $commentId}) DETACH DELETE c, and the commit.
DeleteCommentRun(p) ==
  /\ pc[p] = "dc_delete"
  /\ UNCHANGED <<users, tweets, posted, likesTweet, follows, created, started>>
  /\ LET c == arg[p].comment IN
       /\ comments' = IF CommentExists(c) THEN Drop(comments, c) ELSE comments
       /\ postedC' = {e \in postedC : e[2] # c}
       /\ commentsOn' = {e \in commentsOn : e[1] # c}
       /\ likesComment' = [e \in DOMAIN likesComment |->
                             IF e[2] = c THEN 0 ELSE likesComment[e]]
       /\ Finish(p, Outcome(arg[p], "true"),
                 Finally(sessions[p], "op", FALSE))

\* MATCH (u:User {id: $userId})-[r:LIKES_COMMENT]->(c:Comment {id: $commentId}) RETURN r
ExistingCommentLikes(userId, commentId) ==
  IF UserExists(userId) /\ CommentExists(commentId)
  THEN likesComment[<<userId, commentId>>]
  ELSE 0

\* CommentService.likeComment(commentId, userId), first statement of its write
\* transaction: "Check if already liked"; returns false when it is.
LikeCommentCheck(p, u, c) ==
  /\ Arrive(p)
  /\ UNCHANGED graph
  /\ LET a == Request("likeComment", u, NULL, NULL, c, "") IN
       \/ /\ ExistingCommentLikes(u, c) > 0
          /\ Finish(p, Outcome(a, "false"),
                    withSession(sessions[p], "op", FALSE))
       \/ /\ ExistingCommentLikes(u, c) = 0
          /\ Goto(p, a, "lc_create",
                  acquire(sessions[p], "op"))

\* MATCH (u:User {id: $userId}), (c:Comment {id: $commentId})
\* CREATE (u)-[r:LIKES_COMMENT]->(c)
CreateCommentLikeEdge(userId, commentId) ==
  IF UserExists(userId) /\ CommentExists(commentId)
  THEN [likesComment EXCEPT ![<<userId, commentId>>] = @ + 1]
  ELSE likesComment

\* CommentService.likeComment, second statement and the commit; then return true.
LikeCommentCreate(p) ==
  /\ pc[p] = "lc_create"
  /\ UNCHANGED <<users, tweets, comments, posted, postedC, commentsOn, likesTweet, follows,
                 created, started>>
  /\ likesComment' = CreateCommentLikeEdge(arg[p].user, arg[p].comment)
  /\ Finish(p, Outcome(arg[p], "true"),
            Finally(sessions[p], "op", FALSE))

\* CommentService.unlikeComment(commentId, userId), first statement of its
\* write transaction: "Check if the like exists"; returns false when not.
UnlikeCommentCheck(p, u, c) ==
  /\ Arrive(p)
  /\ UNCHANGED graph
  /\ LET a == Request("unlikeComment", u, NULL, NULL, c, "") IN
       \/ /\ ExistingCommentLikes(u, c) = 0
          /\ Finish(p, Outcome(a, "false"),
                    withSession(sessions[p], "op", FALSE))
       \/ /\ ExistingCommentLikes(u, c) > 0
          /\ Goto(p, a, "uc_delete",
                  acquire(sessions[p], "op"))

\* MATCH (u:User {id: $userId})-[r:LIKES_COMMENT]->(c:Comment {id: $commentId}) DELETE r
DeleteCommentLikeEdges(userId, commentId) ==
  [likesComment EXCEPT ![<<userId, commentId>>] = 0]

\* CommentService.unlikeComment, second statement and the commit; then return true.
UnlikeCommentDelete(p) ==
  /\ pc[p] = "uc_delete"
  /\ UNCHANGED <<users, tweets, comments, posted, postedC, commentsOn, likesTweet, follows,
                 created, started>>
  /\ likesComment' = DeleteCommentLikeEdges(arg[p].user, arg[p].comment)
  /\ Finish(p, Outcome(arg[p], "true"),
            Finally(sessions[p], "op", FALSE))

\* ------------------------------------------------------------- follows
\* UserService.getFollowings(userId) / getFollowers(userId): the users at the
\* far end of the FOLLOWS edges that leave / reach the user.
getFollowings(userId) == {b \in DOMAIN users : follows[<<userId, b>>] > 0}
getFollowers(userId)  == {a \in DOMAIN users : follows[<<a, userId>>] > 0}

\* The code of the error followUser's caller gets: the resolver's catch wraps
\* whatever was thrown in its try block, ApolloErrors included.
FollowErrorCode(thrown) == "FOLLOW_ERROR"

\* userId === input.targetUserId
IsSelfFollow(userId, targetUserId) == userId = targetUserId

\* UserResolver.followUser up to its first round trip: the context's user
\* (none without a valid token), the self-follow test, the followings list.
FollowUserList(p, u, target) ==
  /\ Arrive(p)
  /\ u = NULL \/ Authenticated(u)
  /\ UNCHANGED graph
  /\ LET a == Request("followUser", u, NULL, target, NULL, "") IN
       \/ /\ u = NULL
          /\ Finish(p, Failure(a, FollowErrorCode("UNAUTHORIZED"), "UNAUTHORIZED"),
                    sessions[p])
       \/ /\ u # NULL
          /\ IsSelfFollow(u, target)
          /\ Finish(p, Failure(a, FollowErrorCode("INVALID_OPERATION"), "INVALID_OPERATION"),
                    sessions[p])
       \/ /\ u # NULL
          /\ ~IsSelfFollow(u, target)
          /\ target \in getFollowings(u)
          /\ Finish(p, Failure(a, FollowErrorCode("ALREADY_FOLLOWING"), "ALREADY_FOLLOWING"),
                    withSession(sessions[p], "op", FALSE))
       \/ /\ u # NULL
          /\ ~IsSelfFollow(u, target)
          /\ target \notin getFollowings(u)
          /\ Goto(p, a, "fu_check",
                  withSession(sessions[p], "op", FALSE))

\* UserService.followUser(followingId, followerId), its reads: both users are
\* looked up ('User not found') and an existing FOLLOWS edge is looked for.
FollowUserCheck(p) ==
  /\ pc[p] = "fu_check"
  /\ UNCHANGED <<graph, started>>
  /\ LET u == arg[p].user
         b == arg[p].target IN
       \/ /\ ~(UserExists(u) /\ UserExists(b))
          /\ Finish(p, Failure(arg[p], FollowErrorCode("User not found"), "User not found"),
                    withSession(sessions[p], "op", FALSE))
       \/ /\ UserExists(u) /\ UserExists(b)
          /\ follows[<<u, b>>] > 0
          /\ Finish(p, Failure(arg[p], FollowErrorCode("Already following"), "Already following"),
                    withSession(sessions[p], "op", FALSE))
       \/ /\ UserExists(u) /\ UserExists(b)
          /\ follows[<<u, b>>] = 0
          /\ Goto(p, arg[p], "fu_create",
                  withSession(sessions[p], "op", FALSE))

\* Neo4jService.createRelationship(fromId, toId, 'FOLLOWS'):
\* MATCH (a), (b) WHERE a.id = $fromId AND b.id = $toId CREATE (a)-[r:FOLLOWS $props]->(b)
createRelationship(fromId, toId) ==
  IF UserExists(fromId) /\ UserExists(toId)
  THEN [follows EXCEPT ![<<fromId, toId>>] = @ + 1]
  ELSE follows

\* UserService.followUser: createRelationship(followerId, followingId, 'FOLLOWS');
\* then the resolver returns true.
FollowUserCreate(p) ==
  /\ pc[p] = "fu_create"
  /\ UNCHANGED <<users, tweets, comments, posted, postedC, commentsOn, likesTweet, likesComment, created, started>>
  /\ \/ /\ follows' = createRelationship(arg[p].user, arg[p].target)
        /\ Finish(p, Outcome(arg[p], "true"),
                  withSession(sessions[p], "op", FALSE))
     \/ /\ UNCHANGED follows
        /\ Finish(p, Failure(arg[p], FollowErrorCode("DATABASE_ERROR"), "DATABASE_ERROR"),
                  withSession(sessions[p], "op", TRUE))

\* A deleteRelationship that deletes the edges between the two users in both
\* directions.
deleteRelationshipBothWays(fromId, toId) ==
  [follows EXCEPT ![<<fromId, toId>>] = 0, ![<<toId, fromId>>] = 0]

\* Neo4jService.deleteRelationship(fromId, toId, 'FOLLOWS'):
\* MATCH (a {id: $fromId})-[r:FOLLOWS]->(b {id: $toId}) DELETE r
deleteRelationship(fromId, toId) == [follows EXCEPT ![<<fromId, toId>>] = 0]

\* UserResolver.unfollowUser -> UserService.unfollowUser(targetUserId, userId)
\* -> deleteRelationship(userId, targetUserId, 'FOLLOWS'); the resolver's catch
\* wraps whatever was thrown as UNFOLLOW_USER_ERROR.
UnfollowUser(p, u, target) ==
  /\ Arrive(p)
  /\ Authenticated(u)
  /\ UNCHANGED <<users, tweets, comments, posted, postedC, commentsOn, likesTweet, likesComment,
                 created>>
  /\ LET a == Request("unfollowUser", u, NULL, target, NULL, "") IN
       \/ /\ IsSelfFollow(u, target)
          /\ UNCHANGED follows
          /\ Finish(p, Failure(a, "UNFOLLOW_USER_ERROR", "INVALID_OPERATION"),
                    sessions[p])
       \/ /\ ~IsSelfFollow(u, target)
          /\ follows' = deleteRelationship(u, target)
          /\ Finish(p, Outcome(a, "true"),
                    withSession(sessions[p], "op", FALSE))
       \/ /\ ~IsSelfFollow(u, target)
          /\ UNCHANGED follows
          /\ Finish(p, Failure(a, "UNFOLLOW_USER_ERROR", "DATABASE_ERROR"),
                    withSession(sessions[p], "op", TRUE))

\* ------------------------------------------------------------- authentication
\* What a request carries as its token: none, one that does not verify, or
\* one signed for a user id (the user may be gone since).
Tokens ==
  {[given |-> FALSE, valid |-> FALSE, id |-> NULL],
   [given |-> TRUE, valid |-> FALSE, id |-> NULL]}
    \cup {[given |-> TRUE, valid |-> TRUE, id |-> u] : u \in UserIds}

\* verifyJwt(token): the decoded payload's id, or null when jwt.verify throws.
verifyJwt(token) == IF token.valid THEN token.id ELSE NULL

\* MATCH (u:User {id: $id}) RETURN u: records[0], or null.
findUserById(id) == IF UserExists(id) THEN id ELSE NULL

\* The context builder's and the upload middleware's user lookup: a session
\* is taken, the query run and the session closed after it; a query that
\* throws goes to the catch and the close is not reached.
LookupSession(ss, threw) ==
  IF threw THEN acquire(ss, "context") ELSE close(acquire(ss, "context"), "context")

\* No resolver carries @Authorized().
AuthorizedNone == {}

\* The operations whose resolver carries @Authorized().
Authorized ==
  {"listUsers", "listFollowers", "listFollowings", "listTimelineTweets", "createTweet",
   "updateTweet", "deleteTweet", "likeTweet", "unlikeTweet", "commentOnTweet",
   "unfollowUser", "deleteUser"}

\* The code of the error a resolver without a context user gives its caller:
\* that of its catch, which wraps the UNAUTHORIZED it threw (deleteUser
\* rethrows its own).
ContextUserCheck ==
  [createTweet    |-> "TWEET_CREATION_ERROR",
   likeTweet      |-> "LIKE_ERROR",
   unlikeTweet    |-> "UNLIKE_ERROR",
   commentOnTweet |-> "COMMENT_ERROR",
   updateUser     |-> "USER_UPDATE_ERROR",
   followUser     |-> "FOLLOW_ERROR",
   unfollowUser   |-> "UNFOLLOW_USER_ERROR",
   deleteUser     |-> "UNAUTHENTICATED"]

\* The operations that require authentication: the resolvers that carry
\* @Authorized() or start by testing context.user (getRecommendedTweets, which
\* does both, is not followed).
RequiresAuth ==
  {"listUsers", "listFollowers", "listFollowings", "listTimelineTweets", "createTweet",
   "updateTweet", "deleteTweet", "likeTweet", "unlikeTweet", "commentOnTweet", "updateUser",
   "followUser", "unfollowUser", "deleteUser"}

\* authChecker({ context }): !!context.user
authChecker(user) == user # NULL

\* The Apollo context function, for a request of operation op: the token's
\* user is looked up (context.user stays null without a token, with one that
\* does not verify, with one whose user is gone, and when the lookup throws),
\* then the request-scoped neo4jSession is taken.  Requests with a context
\* user are logins here; what the other operations do for a user is followed
\* by the actions above.
ContextBuilder(p, token, op, name, threw) ==
  /\ Arrive(p)
  /\ UNCHANGED graph
  /\ LET decoded == IF token.given THEN verifyJwt(token) ELSE NULL
         user    == IF decoded # NULL /\ ~threw THEN findUserById(decoded) ELSE NULL
         ss      == IF decoded # NULL THEN LookupSession(sessions[p], threw) ELSE sessions[p] IN
       /\ threw => decoded # NULL
       /\ user # NULL => op = "loginUser"
       /\ (name # "") <=> (op = "loginUser")
       /\ Goto(p, Request(op, user, NULL, NULL, NULL, name), "resolve",
               acquire(ss, "request"))

\* What a request without a context user gets from an operation that
\* requires authentication: the @Authorized() guard's error, or the
\* resolver's own; the guard and the resolver's test passed, the body is
\* entered ("served").
Unauthenticated(a) ==
  IF a.op \in Authorized /\ ~authChecker(a.user)
  THEN Failure(a, "ACCESS_DENIED", "UnauthorizedError")
  ELSE IF a.op \in DOMAIN ContextUserCheck /\ a.user = NULL
  THEN Failure(a, ContextUserCheck[a.op], "UNAUTHORIZED")
  ELSE Outcome(a, "served")

\* willSendResponse: await requestContext.context.neo4jSession.close()
willSendResponse(ss) == close(ss, "request")

\* A request for an operation that requires authentication, its context
\* without a user: the guards answer, and the response is sent.
ResolveUnauthenticated(p) ==
  /\ pc[p] = "resolve"
  /\ arg[p].op \in RequiresAuth
  /\ arg[p].user = NULL
  /\ UNCHANGED <<graph, started>>
  /\ Finish(p, Unauthenticated(arg[p]), willSendResponse(sessions[p]))

\* UserService.validatePassword({ username, password }): the user with that
\* username when the password matches its hash, null otherwise.
validatePassword(name, passwordOk) ==
  IF findUserByUsername(name) # {} /\ passwordOk
  THEN CHOOSE u \in findUserByUsername(name) : TRUE
  ELSE NULL

\* A login that takes the first user there is when the credentials fail.
LoginRejectionNever(user) == ""

\* if (!user) throw new ApolloError('Invalid credentials', 'INVALID_CREDENTIALS')
LoginRejection(user) == IF user = NULL THEN "INVALID_CREDENTIALS" ELSE ""

\* signJwt({ id: user.id }): the token, by the id it is signed for.
signJwt(id) == id

\* UserResolver.loginUser; needs no token.  On success the token is signed
\* and context.user set (the outcome's user is the context's user after the
\* request); an ApolloError is rethrown as it is.
LoginUser(p, passwordOk) ==
  /\ pc[p] = "resolve"
  /\ arg[p].op = "loginUser"
  /\ UNCHANGED <<graph, started>>
  /\ LET found == validatePassword(arg[p].name, passwordOk)
         user  == IF found = NULL /\ LoginRejection(found) = ""
                  THEN CHOOSE u \in DOMAIN users : TRUE ELSE found
         ss    == withSession(sessions[p], "op", FALSE) IN
       IF LoginRejection(found) # ""
       THEN Finish(p, [Failure(arg[p], LoginRejection(found), "")
                         EXCEPT !.message = "Invalid credentials"],
                   willSendResponse(ss))
       ELSE Finish(p, [Outcome(arg[p], "login") EXCEPT !.user = user, !.token = signJwt(user)],
                   willSendResponse(ss))

\* authenticateUser, the middleware of POST /upload: 401 without a token,
\* with one that does not verify, when the lookup throws and when the user is
\* gone; next() otherwise.
AuthenticateUser(p, token, threw) ==
  /\ Arrive(p)
  /\ UNCHANGED graph
  /\ LET a       == Request("upload", NULL, NULL, NULL, NULL, "")
         decoded == IF token.given THEN verifyJwt(token) ELSE NULL
         user    == IF decoded # NULL THEN findUserById(decoded) ELSE NULL IN
       /\ threw => decoded # NULL
       /\ IF ~token.given
          THEN Finish(p, Failure(a, "401", "Authentication required. No token provided."),
                      sessions[p])
          ELSE IF decoded = NULL
          THEN Finish(p, Failure(a, "401", "Invalid or expired token."), sessions[p])
          ELSE IF threw
          THEN Finish(p, Failure(a, "401", "Authentication failed."),
                      LookupSession(sessions[p], TRUE))
          ELSE IF user = NULL
          THEN Finish(p, Failure(a, "401", "User not found."),
                      LookupSession(sessions[p], FALSE))
          ELSE Finish(p, [Outcome(a, "next") EXCEPT !.user = user],
                      LookupSession(sessions[p], FALSE))

\* ------------------------------------------------------------- behaviours
\* The requests that need a user to exist, and their later steps.
UserRequests(p) ==
    \/ \E u \in UserIds, passwordOk \in BOOLEAN : DeleteUser(p, u, passwordOk)
    \/ \E u \in UserIds, text \in Texts, media \in Medias : CreateTweet(p, u, text, media)
    \/ \E viewer \in UserIds \cup {NULL}, t \in TweetIds : FetchTweet(p, viewer, t)
    \/ ListTweets(p)
    \/ \E userId \in UserIds : ListLikedTweets(p, userId)
    \/ \E viewer \in UserIds, userId \in UserIds : ListTimelineTweets(p, viewer, userId)
    \/ \E u \in UserIds, t \in TweetIds, authorId \in UserIds : DeleteTweetFetch(p, u, t, authorId)
    \/ DeleteTweetTx(p)
    \/ \E u \in UserIds, t \in TweetIds : LikeTweetCheck(p, u, t)
    \/ LikeTweetCreate(p)
    \/ \E u \in UserIds, t \in TweetIds : UnlikeTweet(p, u, t)
    \/ \E u \in UserIds, t \in TweetIds : CommentOnTweetResolverFetch(p, u, t)
    \/ CommentOnTweetServiceFetch(p)
    \/ CommentOnTweetTx(p)
    \/ CommentOnTweetServiceRefetch(p)
    \/ CommentOnTweetResolverRefetch(p)
    \/ \E u \in UserIds, t \in TweetIds : CreateComment(p, u, t)
    \/ \E u \in UserIds, c \in CommentIds : DeleteCommentCheck(p, u, c)
    \/ DeleteCommentRun(p)
    \/ \E u \in UserIds \cup {NULL}, target \in UserIds : FollowUserList(p, u, target)
    \/ FollowUserCheck(p)
    \/ FollowUserCreate(p)

Next ==
  \E p \in Procs :
    \/ \E name \in Usernames : RegisterUserFind(p, name)
    \/ RegisterUserCheck(p)
    \/ RegisterUserCreate(p)
    \/ UserRequests(p)

Spec == Init /\ [][Next]_vars

\* The behaviours of the server on the seeded database, every id taken: no
\* registration goes further than its lookup.
SeededNext == \E p \in Procs : UserRequests(p)

SeededSpec == SeededInit /\ [][SeededNext]_vars

\* The CommentService operations, called for a user and a comment id by
\* whatever holds the service.
CommentRequests(p) ==
    \/ \E u \in UserIds, t \in TweetIds : CreateComment(p, u, t)
    \/ \E u \in UserIds, c \in CommentIds : DeleteCommentCheck(p, u, c)
    \/ DeleteCommentRun(p)
    \/ \E u \in UserIds, c \in CommentIds : LikeCommentCheck(p, u, c)
    \/ LikeCommentCreate(p)
    \/ \E u \in UserIds, c \in CommentIds : UnlikeCommentCheck(p, u, c)
    \/ UnlikeCommentDelete(p)

CommentNext == \E p \in Procs : CommentRequests(p)

CommentSpec == CommentInit /\ [][CommentNext]_vars

\* The follow and unfollow mutations on the seeded database.
FollowRequests(p) ==
    \/ \E u \in UserIds \cup {NULL}, target \in UserIds : FollowUserList(p, u, target)
    \/ FollowUserCheck(p)
    \/ FollowUserCreate(p)
    \/ \E u \in UserIds, target \in UserIds : UnfollowUser(p, u, target)

FollowNext == \E p \in Procs : FollowRequests(p)

FollowSpec == SeededInit /\ [][FollowNext]_vars

\* Authentication: requests by their token, logins, and requests for guarded
\* operations without a context user; uploads through the middleware.
AuthRequests(p) ==
    \/ \E token \in Tokens, op \in RequiresAuth \cup {"loginUser"},
          name \in Usernames \cup {""}, threw \in BOOLEAN :
         ContextBuilder(p, token, op, name, threw)
    \/ ResolveUnauthenticated(p)
    \/ \E passwordOk \in BOOLEAN : LoginUser(p, passwordOk)
    \/ \E token \in Tokens, threw \in BOOLEAN : AuthenticateUser(p, token, threw)

AuthNext == \E p \in Procs : AuthRequests(p)

AuthSpec == AuthInit /\ [][AuthNext]_vars

\* Tweets written and read on the seeded database.
TweetRequests(p) ==
    \/ \E u \in UserIds, text \in Texts, media \in Medias : CreateTweet(p, u, text, media)
    \/ \E u \in UserIds, t \in TweetIds, text \in TextInputs, media \in Medias :
         UpdateTweet(p, u, t, text, media)
    \/ \E viewer \in UserIds \cup {NULL}, t \in TweetIds : FetchTweet(p, viewer, t)
    \/ ListTweets(p)

TweetNext == \E p \in Procs : TweetRequests(p)

TweetSpec == SeededInit /\ [][TweetNext]_vars

\* ------------------------------------------------------------- properties
\* C1: a likeTweet that arrives when the caller's LIKES_TWEET edge to the tweet
\* already exists (a second like after a first one that succeeded) ends in its
\* existence check with an error: it creates no second edge, touches no
\* counter, and leaves the graph exactly as it was.
C1_SecondLikeRejected ==
  [][\A p \in Procs, u \in UserIds, t \in TweetIds :
       (LikeTweetCheck(p, u, t) /\ likesTweet[<<u, t>>] > 0)
         => /\ graph' = graph
            /\ pc'[p] = "idle"
            /\ res'.code = "LIKE_ERROR"]_vars

\* A second like was rejected as 'Tweet already liked' and the pair still has
\* its one edge.
C1_Witness ==
  /\ res.op = "likeTweet"
  /\ res.inner = "Tweet already liked"
  /\ likesTweet[<<res.user, res.tweet>>] = 1

\* C2: in every reachable state, also while likeTweet requests by the same
\* user on the same tweet interleave their check and create steps, a user and
\* a tweet are joined by at most one LIKES_TWEET edge.
C2_AtMostOneLikeEdge == \A e \in DOMAIN likesTweet : likesTweet[e] <= 1

\* C3: in every reachable state the likesCount fetchTweet reports for a tweet
\* is the number of LIKES_TWEET edges that point at it.
C3_LikesCountIsEdgeCount ==
  \A t \in DOMAIN tweets :
    fetchTweet(t).found => fetchTweet(t).likesCount = LikeEdges(t)

\* C4: for a viewer U and a tweet T, fetchTweet(T) reports isLiked = true
\* exactly when a LIKES_TWEET edge from U to T exists.
C4_IsLikedIffEdge ==
  \A u \in DOMAIN users, t \in DOMAIN tweets :
    fetchTweet(t).found => (fetchTweet(t).isLiked <=> likesTweet[<<u, t>>] > 0)

\* C5 as stated: unlikeTweet by a user with no LIKES_TWEET edge to the tweet
\* returns false, raises no error and leaves the graph unchanged.
C5_UnlikeWithoutEdgeReturnsFalse ==
  [][\A p \in Procs, u \in UserIds, t \in TweetIds :
       (UnlikeTweet(p, u, t) /\ likesTweet[<<u, t>>] = 0)
         => /\ res'.ret = "false"
            /\ res'.code = ""
            /\ graph' = graph]_vars

\* C5 amended: unlikeTweet by a user with no LIKES_TWEET edge to the tweet
\* raises no error and leaves the graph unchanged; it returns true when its
\* DELETE statement ran and false only when the driver threw.
C5_UnlikeWithoutEdgeIsNoOp ==
  [][\A p \in Procs, u \in UserIds, t \in TweetIds :
       (UnlikeTweet(p, u, t) /\ likesTweet[<<u, t>>] = 0)
         => /\ res'.ret = (IF res'.inner = "" THEN "true" ELSE "false")
            /\ res'.code = ""
            /\ graph' = graph]_vars

\* The third request of a behaviour (after a registration and a createTweet,
\* so no like came before it) was an unlikeTweet of the tweet: it returned true.
C5_Witness ==
  /\ res.op = "unlikeTweet"
  /\ res.ret = "true"
  /\ TweetExists(res.tweet)
  /\ started = 3

\* C6: in every reachable state the commentsCount fetchTweet reports for a
\* tweet is the number of Comment nodes with a COMMENTS_ON edge to it, after
\* any interleaving of commentOnTweet, createComment and deleteComment.
C6_CommentsCountIsCommentCount ==
  \A t \in DOMAIN tweets :
    fetchTweet(t).found => fetchTweet(t).commentsCount = Cardinality(CommentsOf(t))

\* The four effects of a comment by user u on tweet t, between two states: a
\* new Comment node, its POSTED edge from u, its COMMENTS_ON edge to t, and
\* one more on t's commentsCount.
CommentAdded(u, t) ==
  /\ TweetExists(t)
  /\ t \in DOMAIN tweets'
  /\ Coalesce(tweets'[t].commentsCount) = Coalesce(tweets[t].commentsCount) + 1
  /\ \E c \in (DOMAIN comments') \ (DOMAIN comments) :
       /\ <<u, c>> \in postedC'
       /\ <<c, t>> \in commentsOn'

\* C7: commentOnTweet's write transaction is all-or-nothing: it leaves either
\* the new Comment node, its POSTED edge, its COMMENTS_ON edge and the +1 on
\* commentsCount, or none of them; with the author or the tweet missing when
\* it runs, commentsCount is not incremented.
C7_CommentAllOrNothing ==
  [][\A p \in Procs :
       CommentOnTweetTx(p)
         => \/ CommentAdded(arg[p].user, arg[p].tweet)
            \/ /\ tweets' = tweets
               /\ comments' = comments
               /\ postedC' = postedC
               /\ commentsOn' = commentsOn]_vars

\* C8: followUser with the caller as its own target fails in the resolver,
\* the error the caller gets carries the code INVALID_OPERATION, no edge is
\* created, and no user ever has a FOLLOWS edge to itself.
C8_SelfFollowInvalidOperation ==
  /\ [](\A u \in UserIds : follows[<<u, u>>] = 0)
  /\ [][\A p \in Procs, u \in UserIds :
          FollowUserList(p, u, u)
            => /\ res'.code = "INVALID_OPERATION"
               /\ pc'[p] = "idle"
               /\ graph' = graph]_vars

\* C9: in every reachable state, also while followUser requests by the same
\* caller for the same target interleave, an ordered pair of users is joined
\* by at most one FOLLOWS edge.
C9_AtMostOneFollowsEdge == \A e \in DOMAIN follows : follows[e] <= 1

\* C10: a followUser by caller A with target B that succeeds creates the
\* FOLLOWS edge from A to B and no other: afterwards listFollowers(B) contains
\* A and listFollowings(A) contains B, listFollowers(A) and listFollowings(B)
\* are what they were.
C10_FollowCreatesEdgeToTarget ==
  [][\A p \in Procs, a \in UserIds, b \in UserIds :
       (FollowUserCreate(p) /\ res'.ret = "true" /\ a = arg[p].user /\ b = arg[p].target)
         => /\ follows' = [follows EXCEPT ![<<a, b>>] = @ + 1]
              /\ a \in getFollowers(b)'
              /\ b \in getFollowings(a)'
              /\ getFollowers(a)' = getFollowers(a)
              /\ getFollowings(b)' = getFollowings(b)]_vars

\* C11: while user A has a FOLLOWS edge to user B (after follow(A, B)),
\* listTimelineTweets(A) contains every tweet B posted; and
\* listTimelineTweets(C), for a user C who is not B and has no FOLLOWS edge to
\* B, contains none of B's tweets.
C11_TimelineFollowsFollowed ==
  /\ \A a \in DOMAIN users, b \in DOMAIN users, t \in DOMAIN tweets :
       (follows[<<a, b>>] > 0 /\ <<b, t>> \in posted) => t \in listTimelineTweets(a)
  /\ \A c \in DOMAIN users, b \in DOMAIN users, t \in DOMAIN tweets :
       (c # b /\ follows[<<c, b>>] = 0 /\ <<b, t>> \in posted)
         => t \notin listTimelineTweets(c)

\* A follows B and C follows A but not B: a tweet of B is on A's timeline and
\* not on C's.
C11_Witness ==
  \E a \in DOMAIN users, b \in DOMAIN users, c \in DOMAIN users, t \in DOMAIN tweets :
    /\ follows[<<a, b>>] > 0
    /\ follows[<<c, a>>] > 0
    /\ follows[<<c, b>>] = 0
    /\ c # b
    /\ <<b, t>> \in posted
    /\ t \in listTimelineTweets(a)
    /\ t \notin listTimelineTweets(c)

\* C12: for every user u, listTimelineTweets(u) is exactly the set of tweets
\* posted by u or by a user u follows; it holds u's own tweets also when u
\* follows no one.
C12_TimelineIsOwnAndFollowed ==
  \A u \in DOMAIN users :
    listTimelineTweets(u) =
      {t \in DOMAIN tweets :
         \E poster \in DOMAIN users :
           /\ <<poster, t>> \in posted
           /\ (poster = u \/ follows[<<u, poster>>] > 0)}

\* C13: a createTweet that succeeds, for an existing author and a text that is
\* not blank, followed by fetchTweet of the returned id, yields a tweet with
\* the same text, the same media (none when the input left them out) and the
\* same authorId, with likesCount = commentsCount = retweetsCount = 0 and with
\* author.id equal to authorId; it is the tweet createTweet itself returned.
C13_CreateThenFetch ==
  [][\A p \in Procs, u \in UserIds, text \in Texts, media \in Medias, id \in TweetIds :
       (res'.ret = "tweet" /\ id = res'.tweet /\ CreateTweet(p, u, text, media))
         => /\ fetchTweet(id)'.found
            /\ fetchTweet(id)'.text = text
            /\ fetchTweet(id)'.media = (IF media.given THEN media.urls ELSE << >>)
            /\ fetchTweet(id)'.authorId = u
            /\ fetchTweet(id)'.author = u
            /\ fetchTweet(id)'.likesCount = 0
            /\ fetchTweet(id)'.commentsCount = 0
            /\ fetchTweet(id)'.retweetsCount = 0
            /\ fetchTweet(id)' = res'.value]_vars

\* A tweet with text " a" and one media url was just created, and fetchTweet
\* gives it back.
C13_Witness ==
  /\ res.op = "createTweet"
  /\ res.ret = "tweet"
  /\ fetchTweet(res.tweet).found
  /\ fetchTweet(res.tweet).text = <<" ", "a">>
  /\ fetchTweet(res.tweet).media = <<"m">>
  /\ fetchTweet(res.tweet).author = res.user

\* C14: createTweet with an empty or whitespace-only text is rejected with
\* the error code INVALID_INPUT; it opens no session, creates no Tweet node and
\* no POSTED edge.
C14_BlankTextInvalidInput ==
  [][\A p \in Procs, u \in UserIds, text \in Texts, media \in Medias :
       (trim(text) = << >> /\ CreateTweet(p, u, text, media))
         => /\ res'.code = "INVALID_INPUT"
            /\ sessions'[p] = sessions[p]
            /\ graph' = graph]_vars

C16_OnlyAuthorDeletes ==
  [][\A p \in Procs, t \in DOMAIN tweets :
       (pc[p] = "dt_tx" /\ t = arg[p].tweet /\ DeleteTweetTx(p) /\ t \notin DOMAIN tweets')
         => arg[p].user = tweets[t].authorId]_vars

\* C17: a registerUser whose username belongs to a user when the request
\* arrives fails with the message 'Username already exists' under a
\* duplicate-username code; it returns no user and no token, creates no node,
\* and leaves the existing user's record (the whole graph) unchanged.
C17_DuplicateUsernameRejected ==
  [][\A p \in Procs, name \in Usernames :
       ((\E u \in DOMAIN users : users[u].username = name) /\ RegisterUserFind(p, name))
         => /\ res'.message = "Username already exists"
            /\ res'.code = "USER_EXISTS"
            /\ res'.ret = "none"
            /\ pc'[p] = "idle"
            /\ graph' = graph]_vars

\* A registration was just refused for its username, with a user registered.
C17_Witness ==
  /\ res.op = "registerUser"
  /\ res.code = "USER_EXISTS"
  /\ res.message = "Username already exists"
  /\ DOMAIN users # {}

\* C18: in every reachable state, also while two registerUser requests for
\* the same new username interleave their lookups and their createUser writes,
\* no two User nodes have the same username.
C18_UsernamesUnique ==
  \A u \in DOMAIN users, v \in DOMAIN users :
    users[u].username = users[v].username => u = v

\* C19: every driver session a service operation acquires (through
\* TweetService.withSession, CommentService.withSession or a Neo4jService
\* method) is closed exactly once before the operation completes, whether it
\* returns, its body throws or the driver throws: no session is ever closed
\* twice, and a process whose request has completed holds no open session,
\* the sessions commentOnTweet's nested fetchTweet calls open included.
C19_SessionsClosedOnce ==
  \A p \in Procs :
    /\ \A s \in DOMAIN sessions[p] : sessions[p][s] = 0
    /\ pc[p] = "idle" => DOMAIN sessions[p] = {}

\* A commentOnTweet went through its nested fetchTweet holding its own
\* session, then its transaction failed in the driver: every request has
\* completed and no session is open.
C19_Witness ==
  /\ res.op = "commentOnTweet"
  /\ res.inner = "DATABASE_ERROR"
  /\ \A p \in Procs : pc[p] = "idle" /\ DOMAIN sessions[p] = {}

\* C20: deleteComment(commentId, userId) goes on to delete only when the
\* POSTED edge from userId to the comment exists; otherwise (no such comment,
\* or another author) it rejects with the error message 'Comment not found or
\* not authorized' and leaves the graph unchanged; when it succeeds it returns
\* true and the comment and all its edges are gone.
C20_DeleteCommentByAuthorOnly ==
  /\ [][\A p \in Procs, u \in UserIds, c \in CommentIds :
          (~(CommentExists(c) /\ <<u, c>> \in postedC) /\ DeleteCommentCheck(p, u, c))
            => /\ res'.message = "Comment not found or not authorized"
               /\ pc'[p] = "idle"
               /\ graph' = graph]_vars
  /\ [][\A p \in Procs, c \in CommentIds :
          (pc[p] = "dc_delete" /\ c = arg[p].comment /\ DeleteCommentRun(p))
            => /\ res'.ret = "true"
               /\ c \notin DOMAIN comments'
               /\ \A e \in postedC' : e[2] # c
               /\ \A e \in commentsOn' : e[1] # c]_vars

\* C21: likeComment and unlikeComment return true exactly when they changed
\* the LIKES_COMMENT edges and false, with no error and the graph unchanged,
\* otherwise: a true likeComment leaves the pair with the one edge it added, a
\* true unlikeComment leaves it with none, no pair ever has two edges.
C21_CommentLikeReturnsChange ==
  /\ [](\A e \in DOMAIN likesComment : likesComment[e] <= 1)
  /\ [][\A u \in UserIds, c \in CommentIds :
          (res'.op \in {"likeComment", "unlikeComment"} /\ res'.user = u /\ res'.comment = c)
            => /\ res'.code = ""
               /\ res'.ret \in {"true", "false"}
               /\ (res'.ret = "true") <=> (likesComment' # likesComment)
               /\ res'.ret = "false" => graph' = graph
               /\ (res'.ret = "true" /\ res'.op = "likeComment")
                    => likesComment' = [likesComment EXCEPT ![<<u, c>>] = 1]
               /\ (res'.ret = "true" /\ res'.op = "unlikeComment")
                    => likesComment' = [likesComment EXCEPT ![<<u, c>>] = 0]]_vars

\* C22: unfollowUser by caller A for another user B, when the database does
\* not fail, returns true; with no FOLLOWS edge from A to B it changes nothing,
\* with one it removes the edge from A to B and leaves every other FOLLOWS
\* edge, the one from B to A included, as it was.
C22_UnfollowRemovesOnlyItsEdge ==
  [][\A p \in Procs, a \in UserIds, b \in UserIds :
       (a # b /\ res'.inner # "DATABASE_ERROR" /\ UnfollowUser(p, a, b))
         => /\ res'.ret = "true"
            /\ res'.code = ""
            /\ follows[<<a, b>>] = 0 => graph' = graph
            /\ follows'[<<a, b>>] = 0
            /\ \A e \in DOMAIN follows : e # <<a, b>> => follows'[e] = follows[e]
            /\ follows'[<<b, a>>] = follows[<<b, a>>]]_vars

\* An unfollow just succeeded between two users who followed each other: the
\* caller's edge is gone, the target's edge to the caller is still there.
C22_Witness ==
  /\ res.op = "unfollowUser"
  /\ res.ret = "true"
  /\ follows[<<res.user, res.target>>] = 0
  /\ follows[<<res.target, res.user>>] > 0

\* C23: a request for listUsers, listFollowers, listFollowings,
\* listTimelineTweets, createTweet, updateTweet, deleteTweet, likeTweet,
\* unlikeTweet, commentOnTweet, updateUser, followUser, unfollowUser or
\* deleteUser whose context has no user ends with an error, returns nothing
\* and leaves the graph unchanged.
C23_UnauthenticatedRejected ==
  [][\A p \in Procs :
       (/\ pc[p] = "resolve"
        /\ arg[p].user = NULL
        /\ arg[p].op \in {"listUsers", "listFollowers", "listFollowings", "listTimelineTweets",
                          "createTweet", "updateTweet", "deleteTweet", "likeTweet",
                          "unlikeTweet", "commentOnTweet", "updateUser", "followUser",
                          "unfollowUser", "deleteUser"}
        /\ pc'[p] = "idle")
         => /\ res'.op = arg[p].op
            /\ res'.code # ""
            /\ res'.ret = "none"
            /\ graph' = graph]_vars

\* A deleteTweet, which names its author in its input and never reads the
\* context, was just refused for want of a context user.
C23_Witness ==
  /\ res.op = "deleteTweet"
  /\ res.user = NULL
  /\ res.code = "ACCESS_DENIED"

\* C24: a loginUser with a wrong password and one with a username no user
\* has end alike: the credential check yields no user, the request fails with
\* code INVALID_CREDENTIALS and the one message, no token is signed, and the
\* context's user is what it was; the graph is unchanged.
C24_LoginFailuresAlike ==
  [][\A p \in Procs, passwordOk \in BOOLEAN :
       (/\ pc[p] = "resolve"
        /\ arg[p].op = "loginUser"
        /\ (~passwordOk \/ ~\E u \in DOMAIN users : users[u].username = arg[p].name)
        /\ LoginUser(p, passwordOk))
         => /\ validatePassword(arg[p].name, passwordOk) = NULL
            /\ res'.code = "INVALID_CREDENTIALS"
            /\ res'.message = "Invalid credentials"
            /\ res'.inner = ""
            /\ res'.ret = "none"
            /\ res'.token = NULL
            /\ res'.user = arg[p].user
            /\ graph' = graph]_vars

\* A login without a token was just refused while carol, whose account is
\* gone, is a username no user has.
C24_Witness ==
  /\ res.op = "loginUser"
  /\ res.code = "INVALID_CREDENTIALS"
  /\ res.token = NULL
  /\ res.user = NULL
  /\ findUserByUsername("carol") = {}

\* C25: every session taken while a request is authenticated (the user
\* lookup's, in the context builder and in the upload middleware, and the
\* request's neo4jSession) is closed, once, by the time the request has
\* ended: a process between requests holds no session.
C25_AuthSessionsClosed ==
  \A p \in Procs :
    /\ \A s \in DOMAIN sessions[p] : sessions[p][s] = 0
    /\ pc[p] = "idle" => DOMAIN sessions[p] = {}

\* C26: in every reachable state every Comment node has exactly one
\* COMMENTS_ON edge, and that edge points at a Tweet node that exists, after
\* any commentOnTweet, createComment, deleteComment and deleteTweet; a tweet
\* deleted with its comments leaves no Comment node without its tweet.
C26_CommentHasItsTweet ==
  \A c \in DOMAIN comments :
    /\ Cardinality({t \in TweetIds : <<c, t>> \in commentsOn}) = 1
    /\ \A t \in TweetIds : <<c, t>> \in commentsOn => TweetExists(t)

C28_ListedCountsAsFetched ==
  \A t \in listTweets
             \cup UNION {listUserTweets(u) \cup listLikedTweets(u) \cup listTimelineTweets(u) :
                           u \in DOMAIN users} :
    \A listed \in ListedTweets(t) :
      /\ listed.likesCount # NULL
      /\ listed.commentsCount # NULL
      /\ listed.retweetsCount # NULL
      /\ listed.likesCount = fetchTweet(t).likesCount
      /\ listed.commentsCount = fetchTweet(t).commentsCount
      /\ listed.retweetsCount = fetchTweet(t).retweetsCount

\* C29: whenever likeTweet(tweetId, userId) returns true, a LIKES_TWEET edge
\* from that user to that tweet exists in the resulting state, both nodes
\* existing; for an id that matches no node the call does not return true.
C29_LikeTrueMeansEdge ==
  [][\A p \in Procs, u \in UserIds, t \in TweetIds :
       (/\ pc[p] = "like_create"
        /\ u = arg[p].user
        /\ t = arg[p].tweet
        /\ res'.ret = "true"
        /\ LikeTweetCreate(p))
         => /\ u \in DOMAIN users'
            /\ t \in DOMAIN tweets'
            /\ likesTweet'[<<u, t>>] > 0]_vars

\* C30: listTimelineTweets(u) returns every tweet it returns exactly once,
\* however many users u follows (one FOLLOWS edge to each): u's own tweets and
\* a followed user's tweets come once, not once per followed user.
C30_TimelineWithoutRepeats ==
  \A u \in DOMAIN users :
    (\A b \in DOMAIN users : follows[<<u, b>>] <= 1)
      => \A t \in listTimelineTweets(u) : TimelineCopies(u, t) = 1

====
